---- MODULE Spec2Model ----
(***************************************************************************)
(* Cue point engine of the video metadata toolkit: the VideoAnalyzer       *)
(* backends (video_analysis.py) and the candidate derivation and greedy    *)
(* selection of cue points (cue_point_generator.py).                       *)
(*                                                                         *)
(* Times are exact multiples of 0.05 s ("ticks"): 12.1 s is 242.  Segment  *)
(* boundaries are drawn from even ticks so that the midpoint of a gap is   *)
(* an exact tick, as it is an exact real in the source.                    *)
(***************************************************************************)
EXTENDS Integers, Sequences, FiniteSets, TLC

VARIABLES
  pc,                                \* position of the one synchronous call
  op,                                \* entry point that is running
  analyzer,                          \* backend handed to the call
  video,                             \* video_path_or_uri
  volume_threshold,                  \* <<>> is None, <<v>> is the float v
  minimum_time_for_first_cue_point,
  minimum_time_between_cue_points,
  video_segments,                    \* result of detect_shot_changes
  potential_cue_points,              \* candidates handed to selection
  cue_points,                        \* result of selection
  previous_output,                   \* the output that a re-run was fed with
  detect_shot_responses,             \* FakeVideoAnalyzer: the iterator's rest
  request,                           \* cloud: request given to annotate_video
  shot_annotations,                  \* cloud: annotations of the response
  probe,                             \* ffmpeg: the probed video stream
  silencedetect_n,                   \* ffmpeg: noise parameter of the filter
  video_lines,                       \* ffmpeg: showinfo lines not yet logged
  audio_lines,                       \* ffmpeg: silencedetect lines not yet logged
  ffmpeg_output,                     \* ffmpeg: the diagnostic stream so far
  shot_change_timestamps,            \* ffmpeg: cuts parsed from the stream
  fake_constructed,                  \* FakeVideoAnalyzer: responses it was built with
  fake_invocations,                  \* FakeVideoAnalyzer: invocations so far
  detect_calls,                      \* detect_shot_changes invocations of this call
  raised,                            \* failure raised by detect_shot_changes
  error,                             \* failure the call ended with
  args,                              \* main: the command line it was given
  arguments,                         \* main: the parsed command line
  stdout,                            \* main: what was printed
  calls,                             \* concurrent callers: each call's locals
  instance                           \* attributes of the shared analyzer instances

vars == << pc, op, analyzer, video, volume_threshold,
           minimum_time_for_first_cue_point, minimum_time_between_cue_points,
           video_segments, potential_cue_points, cue_points, previous_output,
           detect_shot_responses, request, shot_annotations, probe,
           silencedetect_n, video_lines, audio_lines, ffmpeg_output,
           shot_change_timestamps, fake_constructed, fake_invocations,
           detect_calls, raised, error, args, arguments, stdout, calls,
           instance >>

(***************************************************************************)
(* Bounds of the model.                                                    *)
(***************************************************************************)
MaxCandidates == 3        \* longest candidate list given to selection directly
MaxTime == 4              \* largest candidate time / parameter drawn, in ticks
MaxCuts == 2              \* most scene changes in one local media file

(***************************************************************************)
(* Program constants, in ticks of 0.05 s (and dB for the threshold).       *)
(***************************************************************************)
DefaultFirstCuePoint == 0
DefaultBetweenCuePoints == 600
RefFirstCuePoint == 200
RefBetweenCuePoints == 100
DefaultVolumeThreshold == 1000

VideoSegment(s, e) == [start_time |-> s, end_time |-> e]

\* _TEST_SHOT_DETECT_RESPONSE
RefSegments ==
  << VideoSegment(0, 242), VideoSegment(246, 250), VideoSegment(254, 1202),
     VideoSegment(1206, 1216), VideoSegment(1306, 1316) >>

(***************************************************************************)
(* sorted(): stable insertion into an ascending list.                      *)
(***************************************************************************)
RECURSIVE InsertSorted(_, _)
InsertSorted(x, s) ==
  IF s = << >> THEN << x >>
  ELSE IF x < Head(s) THEN << x >> \o s
       ELSE << Head(s) >> \o InsertSorted(x, Tail(s))

\* slip: the candidates are scanned in the order given
sorted_Unsorted(s) == s

RECURSIVE sorted(_)
sorted(s) ==
  IF s = << >> THEN << >>
  ELSE InsertSorted(s[Len(s)], sorted(SubSeq(s, 1, Len(s) - 1)))

(***************************************************************************)
(* _calculate_optimal_cue_points: the loop over the sorted candidates.     *)
(* ScanFrom(c, i, acc, f, b) is the list held by cue_points after the loop *)
(* has handled c[i..], having accepted acc before.                         *)
(***************************************************************************)
\* slip: the spacing is measured from the first accepted cue point
AcceptsCuePoint_FromFirstAccepted(cue_point, acc, first, between) ==
  LET is_at_or_after_min_time == cue_point >= first
      is_long_enough_after_prev_cue_point ==
        Len(acc) = 0 \/ (cue_point - between) >= acc[1]
  IN  is_at_or_after_min_time /\ is_long_enough_after_prev_cue_point

\* slip: the minimum time is not looked at
AcceptsCuePoint_NoMinTime(cue_point, acc, first, between) ==
  Len(acc) = 0 \/ (cue_point - between) >= acc[Len(acc)]

\* slip: the spacing to the previous cue point is not looked at
AcceptsCuePoint_NoSpacing(cue_point, acc, first, between) ==
  cue_point >= first

\* slip: a candidate exactly the minimum spacing after the previous one is
\* turned down
AcceptsCuePoint_StrictSpacing(cue_point, acc, first, between) ==
  LET is_at_or_after_min_time == cue_point >= first
      is_long_enough_after_prev_cue_point ==
        Len(acc) = 0 \/ (cue_point - between) > acc[Len(acc)]
  IN  is_at_or_after_min_time /\ is_long_enough_after_prev_cue_point

\* slip: twice the minimum spacing is asked for
AcceptsCuePoint_DoubleSpacing(cue_point, acc, first, between) ==
  LET is_at_or_after_min_time == cue_point >= first
      is_long_enough_after_prev_cue_point ==
        Len(acc) = 0 \/ (cue_point - 2 * between) >= acc[Len(acc)]
  IN  is_at_or_after_min_time /\ is_long_enough_after_prev_cue_point

AcceptsCuePoint(cue_point, acc, first, between) ==
  LET is_at_or_after_min_time == cue_point >= first
      is_long_enough_after_prev_cue_point ==
        Len(acc) = 0 \/ (cue_point - between) >= acc[Len(acc)]
  IN  is_at_or_after_min_time /\ is_long_enough_after_prev_cue_point

RECURSIVE ScanFrom(_, _, _, _, _)
ScanFrom(c, i, acc, first, between) ==
  IF i > Len(c) THEN acc
  ELSE ScanFrom(c, i + 1,
                IF AcceptsCuePoint(c[i], acc, first, between)
                  THEN Append(acc, c[i]) ELSE acc,
                first, between)

\* slip: the loop starts at the second candidate
CalculateOptimalCuePoints_SkipFirst(potential, first, between) ==
  ScanFrom(sorted(potential), 2, << >>, first, between)

CalculateOptimalCuePoints(potential, first, between) ==
  ScanFrom(sorted(potential), 1, << >>, first, between)

(***************************************************************************)
(* determine_video_cue_points: candidates derived from the segments.       *)
(***************************************************************************)
\* slip: the cut frame itself is taken, not the middle of the gap
PotentialCuePoint_CutFrame(segments, i) == segments[i].end_time

\* slip: the start of the later segment is taken, not the middle of the gap
PotentialCuePoint_NextStart(segments, i) ==
  IF i + 1 <= Len(segments)
    THEN segments[i + 1].start_time
    ELSE segments[i].end_time

PotentialCuePoint(segments, i) ==
  IF i + 1 <= Len(segments)
    THEN segments[i].end_time
         + (segments[i + 1].start_time - segments[i].end_time) \div 2
    ELSE segments[i].end_time

\* slip: the pre-roll candidate is left out
DerivePotentialCuePoints_NoPreRoll(segments) ==
  [i \in 1..Len(segments) |-> PotentialCuePoint(segments, i)]

\* slip: without segments there is no candidate at all
DerivePotentialCuePoints_NeedsSegment(segments) ==
  IF segments = << >> THEN << >>
  ELSE << 0 >> \o [i \in 1..Len(segments) |-> PotentialCuePoint(segments, i)]

DerivePotentialCuePoints(segments) ==
  << 0 >> \o [i \in 1..Len(segments) |-> PotentialCuePoint(segments, i)]

(***************************************************************************)
(* FakeVideoAnalyzer: next() of the iterator over the canned responses.    *)
(***************************************************************************)
FakeExhausted(responses) == responses = << >>
\* slip: the response taken is the last one of the list
FakeDetectShotChanges_Last(responses) == responses[Len(responses)]

FakeDetectShotChanges(responses) == Head(responses)

(***************************************************************************)
(* CloudVideoAnalyzer.detect_shot_changes.                                 *)
(* An offset is [seconds, microseconds]; 50000 microseconds are one tick.  *)
(***************************************************************************)
\* slip: the threshold is sent along with the request
CloudRequest_WithThreshold(uri, threshold) ==
  [features |-> << "SHOT_CHANGE_DETECTION" >> \o threshold, input_uri |-> uri]

CloudRequest(uri, threshold) ==
  [features |-> << "SHOT_CHANGE_DETECTION" >>, input_uri |-> uri]

\* slip: the fractional part of the offset is dropped
OffsetTime_WholeSeconds(offset) == offset.seconds * 20

OffsetTime(offset) == offset.seconds * 20 + offset.microseconds \div 50000

CloudDetectShotChanges(uri, threshold, annotations) ==
  [i \in 1..Len(annotations) |->
     VideoSegment(OffsetTime(annotations[i].start_time_offset),
                  OffsetTime(annotations[i].end_time_offset))]

(***************************************************************************)
(* FfmpegVideoAnalyzer.detect_shot_changes.                                *)
(* The diagnostic stream is a sequence of log lines, each written by one   *)
(* filter: [filter, key, t].                                               *)
(***************************************************************************)
SecondsPerFrame(p) == p.duration \div p.nb_frames

\* volume_threshold or 1_000.0
SilencedetectNoise(threshold) ==
  IF threshold = << >> \/ threshold[1] = 0
    THEN DefaultVolumeThreshold ELSE threshold[1]

SilenceStartLine(t) == [filter |-> "silencedetect", key |-> "silence_start", t |-> t]
SilenceEndLine(t) == [filter |-> "silencedetect", key |-> "silence_end", t |-> t]
ShowinfoLine(t) == [filter |-> "Parsed_showinfo", key |-> "pts_time", t |-> t]

\* re.findall(r"silence_start:([\s\S]*?)silence_end", ...): the lines of each
\* shortest stretch from a silence_start to the next silence_end, the
\* stretches not overlapping.  open says a silence_start has been matched,
\* cur holds the lines captured since.
RECURSIVE SilentSectionsFrom(_, _, _, _, _)
SilentSectionsFrom(stream, i, open, cur, found) ==
  IF i > Len(stream) THEN found
  ELSE IF ~open
    THEN SilentSectionsFrom(stream, i + 1, stream[i].key = "silence_start",
                            << >>, found)
    ELSE IF stream[i].key = "silence_end"
      THEN SilentSectionsFrom(stream, i + 1, FALSE, << >>, Append(found, cur))
      ELSE SilentSectionsFrom(stream, i + 1, TRUE, Append(cur, stream[i]), found)

\* slip: a greedy pattern, one stretch from the first silence_start to the
\* last silence_end
SilentOutputSections_Greedy(stream) ==
  LET starts == { i \in 1..Len(stream) : stream[i].key = "silence_start" }
      first == CHOOSE i \in starts : \A m \in starts : i <= m
      ends == { j \in 1..Len(stream) : stream[j].key = "silence_end" }
      last == CHOOSE j \in ends : \A m \in ends : m <= j
  IN  IF starts = {} \/ ends = {} THEN << >>
      ELSE IF last < first THEN << >>
      ELSE << SubSeq(stream, first + 1, last - 1) >>

SilentOutputSections(stream) == SilentSectionsFrom(stream, 1, FALSE, << >>, << >>)

\* "\n".join(silent_output_sections)
RECURSIVE JoinSections(_)
JoinSections(sections) ==
  IF sections = << >> THEN << >>
  ELSE Head(sections) \o JoinSections(Tail(sections))

IsShowinfo(line) == line.filter = "Parsed_showinfo" /\ line.key = "pts_time"

\* re.findall(r"Parsed_showinfo.+pts_time:([^\s]+)", silent_output)
RECURSIVE ShowinfoTimestamps(_)
ShowinfoTimestamps(lines) ==
  IF lines = << >> THEN << >>
  ELSE (IF IsShowinfo(Head(lines)) THEN << Head(lines).t >> ELSE << >>)
       \o ShowinfoTimestamps(Tail(lines))

ParseShotChangeTimestamps(stream) ==
  ShowinfoTimestamps(JoinSections(SilentOutputSections(stream)))

\* slip: without a cut no segment is built
FfmpegVideoSegments_NoFallback(p, timestamps) ==
  IF timestamps = << >>
    THEN << >>
    ELSE LET boundaries == << p.start_time >> \o timestamps
         IN  [i \in 1..Len(boundaries) |->
                VideoSegment(boundaries[i],
                             IF i + 1 <= Len(boundaries)
                               THEN boundaries[i + 1] - SecondsPerFrame(p)
                               ELSE p.duration)]

\* slip: the single segment starts at the stream's start time
FfmpegVideoSegments_FallbackFromStart(p, timestamps) ==
  LET boundaries == << p.start_time >> \o timestamps
  IN  [i \in 1..Len(boundaries) |->
         VideoSegment(boundaries[i],
                      IF i + 1 <= Len(boundaries)
                        THEN boundaries[i + 1] - SecondsPerFrame(p)
                        ELSE p.duration)]

\* slip: a segment ends on the next cut, not one frame before it
FfmpegVideoSegments_NoFrameBias(p, timestamps) ==
  IF timestamps = << >>
    THEN << VideoSegment(0, p.duration) >>
    ELSE LET boundaries == << p.start_time >> \o timestamps
         IN  [i \in 1..Len(boundaries) |->
                VideoSegment(boundaries[i],
                             IF i + 1 <= Len(boundaries)
                               THEN boundaries[i + 1]
                               ELSE p.duration)]

FfmpegVideoSegments(p, timestamps) ==
  IF timestamps = << >>
    THEN << VideoSegment(0, p.duration) >>
    ELSE LET boundaries == << p.start_time >> \o timestamps
         IN  [i \in 1..Len(boundaries) |->
                VideoSegment(boundaries[i],
                             IF i + 1 <= Len(boundaries)
                               THEN boundaries[i + 1] - SecondsPerFrame(p)
                               ELSE p.duration)]

(***************************************************************************)
(* Inputs of the calls and answers of the collaborators.                   *)
(***************************************************************************)
MaxFrames == 4            \* frame count reported by the probe

Analyzers == {"fake", "cloud", "ffmpeg"}
\* locators, as character strings: "gs://v", "gs:/v" and "v"
GcsPrefix == << "g", "s", ":", "/", "/" >>
Videos ==
  { GcsPrefix \o << "v" >>, << "g", "s", ":", "/", "v" >>, << "v" >> }
VolumeThresholds == { << >>, << 0 >>, << -25 >> }

FirstChoices == (0..MaxTime) \cup {DefaultFirstCuePoint, RefFirstCuePoint}
BetweenChoices ==
  (-1..MaxTime) \cup {DefaultBetweenCuePoints, RefBetweenCuePoints}

SeqsUpTo(S, n) == UNION { [1..k -> S] : k \in 0..n }
CandidateLists == SeqsUpTo(0..MaxTime, MaxCandidates)

\* canned responses a test hands to FakeVideoAnalyzer
FakeResponseLists ==
  { << RefSegments >>,
    << << VideoSegment(0, 2) >>, << >> >>,
    << << VideoSegment(4, 6), VideoSegment(0, 2) >> >> }

Offset(s, us) == [seconds |-> s, microseconds |-> us]
ShotAnnotation(s, e) == [start_time_offset |-> s, end_time_offset |-> e]
\* shot_annotations of the remote service's response
CloudResponses ==
  { << >>,
    << ShotAnnotation(Offset(0, 0), Offset(1, 500000)) >>,
    << ShotAnnotation(Offset(0, 0), Offset(0, 500000)),
       ShotAnnotation(Offset(0, 600000), Offset(1, 100000)) >>,
    << ShotAnnotation(Offset(1, 0), Offset(1, 200000)),
       ShotAnnotation(Offset(0, 0), Offset(0, 900000)) >> }

\* the video stream found by ffmpeg.probe
ProbeChoices ==
  { [start_time |-> s, duration |-> 4 * MaxFrames, nb_frames |-> n] :
      s \in {0, 2}, n \in {MaxFrames, 2 * MaxFrames} }

IsAscending(s) == \A i \in 1..(Len(s) - 1) : s[i] < s[i + 1]

\* scene changes of the media, ascending presentation timestamps
CutTimes(p) == { t \in (p.start_time + 1)..(p.duration - 1) : t % 4 = 0 }
CutLists(p) == { c \in SeqsUpTo(CutTimes(p), MaxCuts) : IsAscending(c) }

\* lines the silencedetect filter logs for the media at a given noise level:
\* at the default level the whole track is one silence
AudioLineChoices(p, n) ==
  IF n = DefaultVolumeThreshold
    THEN { << SilenceStartLine(p.start_time), SilenceEndLine(p.duration) >> }
    ELSE { << >>,
           << SilenceStartLine(4), SilenceEndLine(8) >>,
           << SilenceStartLine(8) >>,
           << SilenceStartLine(0), SilenceEndLine(4),
              SilenceStartLine(8), SilenceEndLine(12) >> }

(***************************************************************************)
(* determine_video_cue_points calls the analyzer it was given, with no     *)
(* handler around the call.                                                *)
(***************************************************************************)
\* video_analyzer.detect_shot_changes(video_path_or_uri, volume_threshold=...)
\* slip: the threshold is not handed on to the analyzer
DetectCall_DropsThreshold(a, v, t) ==
  [analyzer |-> a, video |-> v, volume_threshold |-> << >>]

DetectCall(a, v, t) == [analyzer |-> a, video |-> v, volume_threshold |-> t]

\* a failure of detect_shot_changes leaves determine_video_cue_points (and
\* main) at once, as it was raised
\* slip: the failure is caught and the call goes on without segments
OnAnalyzerFailure_Fallback(e) == [pc |-> "derive", error |-> "none"]

OnAnalyzerFailure(e) == [pc |-> "failed", error |-> e]

CloudFailures == {"RemoteError"}
ProbeFailures == {"ffmpeg.Error", "StopIteration"}

(***************************************************************************)
(* main() of generate_metadata.py, action "cues".                          *)
(***************************************************************************)
CliDefaultFirstCue == 0
CliDefaultBetweenCues == 600

\* str.startswith
StartsWith(str, prefix) ==
  Len(str) >= Len(prefix) /\ SubSeq(str, 1, Len(prefix)) = prefix

\* command lines: an option is << >> when absent, << v >> when given
CommandLines ==
  [action : {"cues"},
   content_file : Videos,
   first_cue : { << >>, << RefFirstCuePoint >> },
   between_cues : { << >>, << RefBetweenCuePoints >> },
   volume_threshold : VolumeThresholds]

\* _parse_args: the defaults of the options
ParseArgs(cli) ==
  [action |-> cli.action,
   content_file |-> cli.content_file,
   first_cue |->
     IF cli.first_cue = << >> THEN CliDefaultFirstCue ELSE cli.first_cue[1],
   between_cues |->
     IF cli.between_cues = << >>
       THEN CliDefaultBetweenCues ELSE cli.between_cues[1],
   volume_threshold |-> cli.volume_threshold]

\* slip: the scheme is recognised without its two slashes
MainVideoAnalyzer_SchemeOnly(content_path) ==
  IF StartsWith(content_path, << "g", "s", ":" >>) THEN "cloud" ELSE "ffmpeg"

MainVideoAnalyzer(content_path) ==
  IF StartsWith(content_path, GcsPrefix) THEN "cloud" ELSE "ffmpeg"

MainForwardedArguments(a) ==
  [video_path_or_uri |-> a.content_file,
   minimum_time_for_first_cue_point |-> a.first_cue,
   minimum_time_between_cue_points |-> a.between_cues,
   volume_threshold |-> a.volume_threshold]

(***************************************************************************)
(* The state machine: one synchronous call at a time.                      *)
(***************************************************************************)
NoProbe == [start_time |-> 0, duration |-> 0, nb_frames |-> 0]
NoRequest == [features |-> << >>, input_uri |-> << >>]
NoArguments ==
  [action |-> "", content_file |-> << >>, first_cue |-> 0, between_cues |-> 0,
   volume_threshold |-> << >>]

NoCommandLine ==
  [action |-> "", content_file |-> << >>, first_cue |-> << >>,
   between_cues |-> << >>, volume_threshold |-> << >>]

(***************************************************************************)
(* Concurrent callers.  The host may run determine_video_cue_points for    *)
(* independent videos at the same time on shared CloudVideoAnalyzer and    *)
(* FfmpegVideoAnalyzer instances.  Each call has its own locals; the       *)
(* instances hold the attributes __init__ gave them.                       *)
(***************************************************************************)
Callers == {"a", "b"}
SharedAnalyzers == {"cloud", "ffmpeg"}

\* the attributes set by the two __init__ methods
ConstructedInstances ==
  [a \in SharedAnalyzers |->
     IF a = "cloud"
       THEN [f \in {"_video_intelligence_client"} |-> "client"]
       ELSE [f \in {"_ffmpeg"} |-> "ffmpeg_python"]]

\* slip: detect_shot_changes remembers the video on the instance
DetectShotChangesSelf_RemembersVideo(self, v) ==
  [f \in (DOMAIN self) \cup {"_video"} |-> IF f = "_video" THEN v ELSE self[f]]

\* the attributes of the instance after a step of detect_shot_changes: the
\* method assigns to locals only
DetectShotChangesSelf(self, v) == self

NoCall ==
  [pc |-> "idle", analyzer |-> "", video |-> << >>, volume_threshold |-> << >>,
   minimum_time_for_first_cue_point |-> DefaultFirstCuePoint,
   minimum_time_between_cue_points |-> DefaultBetweenCuePoints,
   request |-> NoRequest, probe |-> NoProbe, video_segments |-> << >>,
   potential_cue_points |-> << >>, cue_points |-> << >>]

\* the independent videos and what the collaborators answer for each
ConcurrentVideos == { << "v" >>, << "w" >> }

RemoteShots(v) ==
  IF v = << "v" >>
    THEN << ShotAnnotation(Offset(0, 0), Offset(0, 500000)),
            ShotAnnotation(Offset(0, 600000), Offset(1, 100000)) >>
    ELSE << ShotAnnotation(Offset(0, 0), Offset(1, 500000)) >>

LocalProbe(v) ==
  IF v = << "v" >>
    THEN [start_time |-> 0, duration |-> 16, nb_frames |-> 4]
    ELSE [start_time |-> 2, duration |-> 16, nb_frames |-> 8]

LocalStream(v, n) ==
  IF v = << "v" >>
    THEN IF n = DefaultVolumeThreshold
           THEN << SilenceStartLine(0), ShowinfoLine(4), ShowinfoLine(8),
                   SilenceEndLine(16) >>
           ELSE << SilenceStartLine(4), ShowinfoLine(4), SilenceEndLine(8),
                   ShowinfoLine(8) >>
    ELSE IF n = DefaultVolumeThreshold
           THEN << SilenceStartLine(2), ShowinfoLine(8), SilenceEndLine(16) >>
           ELSE << ShowinfoLine(8), SilenceStartLine(8) >>

ConcurrentFirstChoices == {DefaultFirstCuePoint, MaxTime}
ConcurrentBetweenChoices == {MaxTime, DefaultBetweenCuePoints}

CallLocalsCleared ==
  /\ video' = << >>
  /\ volume_threshold' = << >>
  /\ minimum_time_for_first_cue_point' = DefaultFirstCuePoint
  /\ minimum_time_between_cue_points' = DefaultBetweenCuePoints
  /\ video_segments' = << >>
  /\ potential_cue_points' = << >>
  /\ cue_points' = << >>
  /\ previous_output' = << >>
  /\ request' = NoRequest
  /\ shot_annotations' = << >>
  /\ probe' = NoProbe
  /\ silencedetect_n' = 0
  /\ video_lines' = << >>
  /\ audio_lines' = << >>
  /\ ffmpeg_output' = << >>
  /\ shot_change_timestamps' = << >>
  /\ detect_calls' = << >>
  /\ raised' = "none"
  /\ error' = "none"
  /\ args' = NoCommandLine
  /\ arguments' = NoArguments
  /\ stdout' = << >>

Init ==
  /\ pc = "idle"
  /\ op = "none"
  /\ analyzer \in Analyzers
  /\ detect_shot_responses \in
       (IF analyzer = "fake" THEN FakeResponseLists ELSE { << >> })
  /\ fake_constructed = detect_shot_responses
  /\ fake_invocations = 0
  /\ detect_calls = << >>
  /\ raised = "none"
  /\ error = "none"
  /\ args = NoCommandLine
  /\ arguments = NoArguments
  /\ stdout = << >>
  /\ video = << >>
  /\ volume_threshold = << >>
  /\ minimum_time_for_first_cue_point = DefaultFirstCuePoint
  /\ minimum_time_between_cue_points = DefaultBetweenCuePoints
  /\ video_segments = << >>
  /\ potential_cue_points = << >>
  /\ cue_points = << >>
  /\ previous_output = << >>
  /\ request = NoRequest
  /\ shot_annotations = << >>
  /\ probe = NoProbe
  /\ silencedetect_n = 0
  /\ video_lines = << >>
  /\ audio_lines = << >>
  /\ ffmpeg_output = << >>
  /\ shot_change_timestamps = << >>
  /\ calls = [c \in Callers |-> NoCall]
  /\ instance = ConstructedInstances

\* A caller builds a fresh analyzer (a test its double, main() a backend).
NewAnalyzer ==
  /\ pc = "idle"
  /\ \E a \in Analyzers :
       /\ analyzer' = a
       /\ detect_shot_responses' \in
            (IF a = "fake" THEN FakeResponseLists ELSE { << >> })
  /\ fake_constructed' = detect_shot_responses'
  /\ fake_invocations' = 0
  /\ UNCHANGED << pc, op, video, volume_threshold,
                  minimum_time_for_first_cue_point,
                  minimum_time_between_cue_points, video_segments,
                  potential_cue_points, cue_points, previous_output, request,
                  shot_annotations, probe, silencedetect_n, video_lines,
                  audio_lines, ffmpeg_output, shot_change_timestamps,
                  detect_calls, raised, error, args, arguments, stdout, calls,
                  instance >>

\* _calculate_optimal_cue_points is called on a candidate list.
CalculateCall ==
  /\ pc = "idle"
  /\ \E c \in CandidateLists, f \in FirstChoices, b \in BetweenChoices :
       /\ potential_cue_points' = c
       /\ minimum_time_for_first_cue_point' = f
       /\ minimum_time_between_cue_points' = b
  /\ pc' = "select"
  /\ op' = "calculate"
  /\ UNCHANGED << analyzer, video, volume_threshold, video_segments,
                  cue_points, previous_output, detect_shot_responses, request,
                  shot_annotations, probe, silencedetect_n, video_lines,
                  audio_lines, ffmpeg_output, shot_change_timestamps,
                  fake_constructed, fake_invocations, detect_calls, raised,
                  error, args, arguments, stdout, calls, instance >>

\* determine_video_cue_points is called.
DetermineCall ==
  /\ pc = "idle"
  /\ \E v \in Videos, t \in VolumeThresholds,
        f \in FirstChoices, b \in BetweenChoices :
       /\ video' = v
       /\ volume_threshold' = t
       /\ minimum_time_for_first_cue_point' = f
       /\ minimum_time_between_cue_points' = b
  /\ pc' = "detect"
  /\ op' = "determine"
  /\ UNCHANGED << analyzer, video_segments, potential_cue_points, cue_points,
                  previous_output, detect_shot_responses, request,
                  shot_annotations, probe, silencedetect_n, video_lines,
                  audio_lines, ffmpeg_output, shot_change_timestamps,
                  fake_constructed, fake_invocations, detect_calls, raised,
                  error, args, arguments, stdout, calls, instance >>

\* main() with the action "cues": the command line is parsed, the backend is
\* picked by the locator and determine_video_cue_points is called.
MainCall ==
  /\ pc = "idle"
  /\ \E cli \in CommandLines :
       LET parsed == ParseArgs(cli)
           forwarded == MainForwardedArguments(parsed)
       IN  /\ args' = cli
           /\ arguments' = parsed
           /\ analyzer' = MainVideoAnalyzer(parsed.content_file)
           /\ video' = forwarded.video_path_or_uri
           /\ volume_threshold' = forwarded.volume_threshold
           /\ minimum_time_for_first_cue_point' =
                forwarded.minimum_time_for_first_cue_point
           /\ minimum_time_between_cue_points' =
                forwarded.minimum_time_between_cue_points
  /\ detect_shot_responses' = << >>
  /\ fake_constructed' = << >>
  /\ fake_invocations' = 0
  /\ pc' = "detect"
  /\ op' = "main"
  /\ UNCHANGED << video_segments, potential_cue_points, cue_points,
                  previous_output, request, shot_annotations, probe,
                  silencedetect_n, video_lines, audio_lines, ffmpeg_output,
                  shot_change_timestamps, detect_calls, raised, error, stdout,
                  calls, instance >>

\* FakeVideoAnalyzer.detect_shot_changes
FakeDetect ==
  /\ pc = "detect"
  /\ analyzer = "fake"
  /\ detect_calls' = Append(detect_calls, DetectCall(analyzer, video, volume_threshold))
  /\ fake_invocations' =
       IF fake_invocations < Len(fake_constructed) + 1
         THEN fake_invocations + 1 ELSE fake_invocations
  /\ IF FakeExhausted(detect_shot_responses)
       THEN /\ raised' = "StopIteration"
            /\ pc' = OnAnalyzerFailure("StopIteration").pc
            /\ error' = OnAnalyzerFailure("StopIteration").error
            /\ UNCHANGED << video_segments, detect_shot_responses >>
       ELSE /\ video_segments' = FakeDetectShotChanges(detect_shot_responses)
            /\ detect_shot_responses' = Tail(detect_shot_responses)
            /\ pc' = "derive"
            /\ UNCHANGED << raised, error >>
  /\ UNCHANGED << op, analyzer, video, volume_threshold,
                  minimum_time_for_first_cue_point,
                  minimum_time_between_cue_points, potential_cue_points,
                  cue_points, previous_output, request, shot_annotations,
                  probe, silencedetect_n, video_lines, audio_lines,
                  ffmpeg_output, shot_change_timestamps, fake_constructed,
                  args, arguments, stdout, calls, instance >>

\* CloudVideoAnalyzer.detect_shot_changes; the service answers the request.
CloudDetect ==
  /\ pc = "detect"
  /\ analyzer = "cloud"
  /\ LET call == DetectCall(analyzer, video, volume_threshold)
     IN  /\ detect_calls' = Append(detect_calls, call)
         /\ request' = CloudRequest(call.video, call.volume_threshold)
         /\ \E r \in CloudResponses :
              /\ shot_annotations' = r
              /\ video_segments' =
                   CloudDetectShotChanges(call.video, call.volume_threshold, r)
  /\ pc' = "derive"
  /\ UNCHANGED << op, analyzer, video, volume_threshold,
                  minimum_time_for_first_cue_point,
                  minimum_time_between_cue_points, potential_cue_points,
                  cue_points, previous_output, detect_shot_responses, probe,
                  silencedetect_n, video_lines, audio_lines, ffmpeg_output,
                  shot_change_timestamps, fake_constructed, fake_invocations,
                  raised, error, args, arguments, stdout, calls, instance >>

\* CloudVideoAnalyzer.detect_shot_changes: annotate_video or the wait for
\* its result raises
CloudFail ==
  /\ pc = "detect"
  /\ analyzer = "cloud"
  /\ LET call == DetectCall(analyzer, video, volume_threshold)
     IN  /\ detect_calls' = Append(detect_calls, call)
         /\ request' = CloudRequest(call.video, call.volume_threshold)
  /\ \E e \in CloudFailures :
       /\ raised' = e
       /\ pc' = OnAnalyzerFailure(e).pc
       /\ error' = OnAnalyzerFailure(e).error
  /\ UNCHANGED << op, analyzer, video, volume_threshold,
                  minimum_time_for_first_cue_point,
                  minimum_time_between_cue_points, video_segments,
                  potential_cue_points, cue_points, previous_output,
                  detect_shot_responses, shot_annotations, probe,
                  silencedetect_n, video_lines, audio_lines, ffmpeg_output,
                  shot_change_timestamps, fake_constructed, fake_invocations,
                  args, arguments, stdout, calls, instance >>

\* FfmpegVideoAnalyzer.detect_shot_changes up to the start of the filter pass
FfmpegStart ==
  /\ pc = "detect"
  /\ analyzer = "ffmpeg"
  /\ LET call == DetectCall(analyzer, video, volume_threshold)
     IN  /\ detect_calls' = Append(detect_calls, call)
         /\ silencedetect_n' = SilencedetectNoise(call.volume_threshold)
         /\ \E p \in ProbeChoices :
              /\ probe' = p
              /\ \E c \in CutLists(p) :
                   video_lines' = [i \in 1..Len(c) |-> ShowinfoLine(c[i])]
              /\ audio_lines' \in
                   AudioLineChoices(p, SilencedetectNoise(call.volume_threshold))
  /\ ffmpeg_output' = << >>
  /\ pc' = "run"
  /\ UNCHANGED << op, analyzer, video, volume_threshold,
                  minimum_time_for_first_cue_point,
                  minimum_time_between_cue_points, video_segments,
                  potential_cue_points, cue_points, previous_output,
                  detect_shot_responses, request, shot_annotations,
                  shot_change_timestamps, fake_constructed, fake_invocations,
                  raised, error, args, arguments, stdout, calls, instance >>

\* slip: the failed probe is swallowed and the filter pass is started
FfmpegProbeFail_StartsFilterPass ==
  /\ pc = "detect"
  /\ analyzer = "ffmpeg"
  /\ detect_calls' = Append(detect_calls, DetectCall(analyzer, video, volume_threshold))
  /\ \E e \in ProbeFailures :
       /\ raised' = e
       /\ pc' = "run"
       /\ error' = "none"
  /\ UNCHANGED << op, analyzer, video, volume_threshold,
                  minimum_time_for_first_cue_point,
                  minimum_time_between_cue_points, video_segments,
                  potential_cue_points, cue_points, previous_output,
                  detect_shot_responses, request, shot_annotations, probe,
                  silencedetect_n, video_lines, audio_lines, ffmpeg_output,
                  shot_change_timestamps, fake_constructed, fake_invocations,
                  args, arguments, stdout, calls, instance >>

\* FfmpegVideoAnalyzer.detect_shot_changes: the probe raises, or its result
\* has no video stream
FfmpegProbeFail ==
  /\ pc = "detect"
  /\ analyzer = "ffmpeg"
  /\ detect_calls' = Append(detect_calls, DetectCall(analyzer, video, volume_threshold))
  /\ \E e \in ProbeFailures :
       /\ raised' = e
       /\ pc' = OnAnalyzerFailure(e).pc
       /\ error' = OnAnalyzerFailure(e).error
  /\ UNCHANGED << op, analyzer, video, volume_threshold,
                  minimum_time_for_first_cue_point,
                  minimum_time_between_cue_points, video_segments,
                  potential_cue_points, cue_points, previous_output,
                  detect_shot_responses, request, shot_annotations, probe,
                  silencedetect_n, video_lines, audio_lines, ffmpeg_output,
                  shot_change_timestamps, fake_constructed, fake_invocations,
                  args, arguments, stdout, calls, instance >>

\* the filter pass: the showinfo filter logs its next line
FfmpegLogVideo ==
  /\ pc = "run"
  /\ video_lines # << >>
  /\ ffmpeg_output' = Append(ffmpeg_output, Head(video_lines))
  /\ video_lines' = Tail(video_lines)
  /\ UNCHANGED << pc, op, analyzer, video, volume_threshold,
                  minimum_time_for_first_cue_point,
                  minimum_time_between_cue_points, video_segments,
                  potential_cue_points, cue_points, previous_output,
                  detect_shot_responses, request, shot_annotations, probe,
                  silencedetect_n, audio_lines, shot_change_timestamps,
                  fake_constructed, fake_invocations, detect_calls, raised,
                  error, args, arguments, stdout, calls, instance >>

\* the filter pass: the silencedetect filter logs its next line
FfmpegLogAudio ==
  /\ pc = "run"
  /\ audio_lines # << >>
  /\ ffmpeg_output' = Append(ffmpeg_output, Head(audio_lines))
  /\ audio_lines' = Tail(audio_lines)
  /\ UNCHANGED << pc, op, analyzer, video, volume_threshold,
                  minimum_time_for_first_cue_point,
                  minimum_time_between_cue_points, video_segments,
                  potential_cue_points, cue_points, previous_output,
                  detect_shot_responses, request, shot_annotations, probe,
                  silencedetect_n, video_lines, shot_change_timestamps,
                  fake_constructed, fake_invocations, detect_calls, raised,
                  error, args, arguments, stdout, calls, instance >>

\* the pass has ended: the stream is parsed and the segments are built
FfmpegParse ==
  /\ pc = "run"
  /\ video_lines = << >>
  /\ audio_lines = << >>
  /\ shot_change_timestamps' = ParseShotChangeTimestamps(ffmpeg_output)
  /\ video_segments' =
       FfmpegVideoSegments(probe, ParseShotChangeTimestamps(ffmpeg_output))
  /\ pc' = "derive"
  /\ UNCHANGED << op, analyzer, video, volume_threshold,
                  minimum_time_for_first_cue_point,
                  minimum_time_between_cue_points, potential_cue_points,
                  cue_points, previous_output, detect_shot_responses, request,
                  shot_annotations, probe, silencedetect_n, video_lines,
                  audio_lines, ffmpeg_output, fake_constructed,
                  fake_invocations, detect_calls, raised, error, args,
                  arguments, stdout, calls, instance >>

\* determine_video_cue_points builds the candidates
DeriveCandidates ==
  /\ pc = "derive"
  /\ potential_cue_points' = DerivePotentialCuePoints(video_segments)
  /\ pc' = "select"
  /\ UNCHANGED << op, analyzer, video, volume_threshold,
                  minimum_time_for_first_cue_point,
                  minimum_time_between_cue_points, video_segments, cue_points,
                  previous_output, detect_shot_responses, request,
                  shot_annotations, probe, silencedetect_n, video_lines,
                  audio_lines, ffmpeg_output, shot_change_timestamps,
                  fake_constructed, fake_invocations, detect_calls, raised,
                  error, args, arguments, stdout, calls, instance >>

\* _calculate_optimal_cue_points runs and returns; main() has the result
\* left to print
Select ==
  /\ pc = "select"
  /\ cue_points' = CalculateOptimalCuePoints(potential_cue_points,
                                             minimum_time_for_first_cue_point,
                                             minimum_time_between_cue_points)
  /\ pc' = IF op = "main" THEN "print" ELSE "done"
  /\ UNCHANGED << op, analyzer, video, volume_threshold,
                  minimum_time_for_first_cue_point,
                  minimum_time_between_cue_points, video_segments,
                  potential_cue_points, previous_output,
                  detect_shot_responses, request, shot_annotations, probe,
                  silencedetect_n, video_lines, audio_lines, ffmpeg_output,
                  shot_change_timestamps, fake_constructed, fake_invocations,
                  detect_calls, raised, error, args, arguments, stdout, calls,
                  instance >>

\* main() prints the recommended cue points
MainPrint ==
  /\ pc = "print"
  /\ stdout' = Append(stdout, cue_points)
  /\ pc' = "done"
  /\ UNCHANGED << op, analyzer, video, volume_threshold,
                  minimum_time_for_first_cue_point,
                  minimum_time_between_cue_points, video_segments,
                  potential_cue_points, cue_points, previous_output,
                  detect_shot_responses, request, shot_annotations, probe,
                  silencedetect_n, video_lines, audio_lines, ffmpeg_output,
                  shot_change_timestamps, fake_constructed, fake_invocations,
                  detect_calls, raised, error, args, arguments, calls,
                  instance >>

\* the caller runs selection again on the output, with the same parameters
RerunOnOutput ==
  /\ pc = "done"
  /\ potential_cue_points' = cue_points
  /\ previous_output' = cue_points
  /\ pc' = "select"
  /\ op' = "rerun"
  /\ UNCHANGED << analyzer, video, volume_threshold,
                  minimum_time_for_first_cue_point,
                  minimum_time_between_cue_points, video_segments, cue_points,
                  detect_shot_responses, request, shot_annotations, probe,
                  silencedetect_n, video_lines, audio_lines, ffmpeg_output,
                  shot_change_timestamps, fake_constructed, fake_invocations,
                  detect_calls, raised, error, args, arguments, stdout, calls,
                  instance >>

\* the call is over (with its result or its failure); the caller goes on
Return ==
  /\ pc \in {"done", "failed"}
  /\ pc' = "idle"
  /\ op' = "none"
  /\ CallLocalsCleared
  /\ UNCHANGED << analyzer, detect_shot_responses, fake_constructed,
                  fake_invocations, calls, instance >>

Next ==
  \/ NewAnalyzer
  \/ CalculateCall
  \/ DetermineCall
  \/ MainCall
  \/ FakeDetect
  \/ CloudDetect
  \/ CloudFail
  \/ FfmpegStart
  \/ FfmpegProbeFail
  \/ FfmpegLogVideo
  \/ FfmpegLogAudio
  \/ FfmpegParse
  \/ DeriveCandidates
  \/ Select
  \/ MainPrint
  \/ RerunOnOutput
  \/ Return

Spec == Init /\ [][Next]_vars

(***************************************************************************)
(* The state machine of the concurrent callers.  The one synchronous call  *)
(* of Spec stays idle; each caller steps through its own call.             *)
(***************************************************************************)
sequential ==
  << pc, op, analyzer, video, volume_threshold,
     minimum_time_for_first_cue_point, minimum_time_between_cue_points,
     video_segments, potential_cue_points, cue_points, previous_output,
     detect_shot_responses, request, shot_annotations, probe,
     silencedetect_n, video_lines, audio_lines, ffmpeg_output,
     shot_change_timestamps, fake_constructed, fake_invocations,
     detect_calls, raised, error, args, arguments, stdout >>

InitConcurrent == Init /\ analyzer = "ffmpeg"

\* a caller enters determine_video_cue_points with one of the shared analyzers
ConcurrentCall(c) ==
  /\ calls[c].pc = "idle"
  /\ \E a \in SharedAnalyzers, v \in ConcurrentVideos, t \in VolumeThresholds,
        f \in ConcurrentFirstChoices, b \in ConcurrentBetweenChoices :
       calls' = [calls EXCEPT ![c] =
                   [NoCall EXCEPT !.pc = "detect", !.analyzer = a, !.video = v,
                                  !.volume_threshold = t,
                                  !.minimum_time_for_first_cue_point = f,
                                  !.minimum_time_between_cue_points = b]]
  /\ UNCHANGED << instance, sequential >>

\* CloudVideoAnalyzer.detect_shot_changes: annotate_video is called through
\* the client of the instance
CloudAnnotate(c) ==
  /\ calls[c].pc = "detect"
  /\ calls[c].analyzer = "cloud"
  /\ "_video_intelligence_client" \in DOMAIN instance["cloud"]
  /\ calls' = [calls EXCEPT
                 ![c].request = CloudRequest(calls[c].video,
                                             calls[c].volume_threshold),
                 ![c].pc = "await"]
  /\ instance' = [instance EXCEPT
                    !["cloud"] = DetectShotChangesSelf(@, calls[c].video)]
  /\ UNCHANGED sequential

\* CloudVideoAnalyzer.detect_shot_changes: the operation's result arrives and
\* is converted
CloudResult(c) ==
  /\ calls[c].pc = "await"
  /\ calls' = [calls EXCEPT
                 ![c].video_segments =
                    CloudDetectShotChanges(calls[c].request.input_uri,
                                           calls[c].volume_threshold,
                                           RemoteShots(calls[c].request.input_uri)),
                 ![c].pc = "derive"]
  /\ instance' = [instance EXCEPT
                    !["cloud"] = DetectShotChangesSelf(@, calls[c].video)]
  /\ UNCHANGED sequential

\* FfmpegVideoAnalyzer.detect_shot_changes: the probe through the module of
\* the instance
FfmpegProbe(c) ==
  /\ calls[c].pc = "detect"
  /\ calls[c].analyzer = "ffmpeg"
  /\ "_ffmpeg" \in DOMAIN instance["ffmpeg"]
  /\ calls' = [calls EXCEPT ![c].probe = LocalProbe(calls[c].video),
                            ![c].pc = "run"]
  /\ instance' = [instance EXCEPT
                    !["ffmpeg"] = DetectShotChangesSelf(@, calls[c].video)]
  /\ UNCHANGED sequential

\* FfmpegVideoAnalyzer.detect_shot_changes: the filter pass runs, its stream
\* is parsed and the segments are built
FfmpegRun(c) ==
  /\ calls[c].pc = "run"
  /\ LET n == SilencedetectNoise(calls[c].volume_threshold)
         ffmpeg_ouput == LocalStream(calls[c].video, n)
     IN  calls' = [calls EXCEPT
                     ![c].video_segments =
                        FfmpegVideoSegments(calls[c].probe,
                                            ParseShotChangeTimestamps(ffmpeg_ouput)),
                     ![c].pc = "derive"]
  /\ instance' = [instance EXCEPT
                    !["ffmpeg"] = DetectShotChangesSelf(@, calls[c].video)]
  /\ UNCHANGED sequential

\* determine_video_cue_points: the candidates of this call
ConcurrentDerive(c) ==
  /\ calls[c].pc = "derive"
  /\ calls' = [calls EXCEPT
                 ![c].potential_cue_points =
                    DerivePotentialCuePoints(calls[c].video_segments),
                 ![c].pc = "select"]
  /\ UNCHANGED << instance, sequential >>

\* determine_video_cue_points: the selection of this call
ConcurrentSelect(c) ==
  /\ calls[c].pc = "select"
  /\ calls' = [calls EXCEPT
                 ![c].cue_points =
                    CalculateOptimalCuePoints(
                      calls[c].potential_cue_points,
                      calls[c].minimum_time_for_first_cue_point,
                      calls[c].minimum_time_between_cue_points),
                 ![c].pc = "done"]
  /\ UNCHANGED << instance, sequential >>

\* the caller has its result and is free for another call
ConcurrentReturn(c) ==
  /\ calls[c].pc = "done"
  /\ calls' = [calls EXCEPT ![c] = NoCall]
  /\ UNCHANGED << instance, sequential >>

NextConcurrent ==
  \/ \E c \in Callers : ConcurrentCall(c)
  \/ \E c \in Callers : CloudAnnotate(c)
  \/ \E c \in Callers : CloudResult(c)
  \/ \E c \in Callers : FfmpegProbe(c)
  \/ \E c \in Callers : FfmpegRun(c)
  \/ \E c \in Callers : ConcurrentDerive(c)
  \/ \E c \in Callers : ConcurrentSelect(c)
  \/ \E c \in Callers : ConcurrentReturn(c)

SpecConcurrent == InitConcurrent /\ [][NextConcurrent]_vars

(***************************************************************************)
(* Properties of selection.                                                *)
(***************************************************************************)
Abs(x) == IF x < 0 THEN -x ELSE x

SelectionReturned == pc = "done"

\* C1: no two cue points returned by selection are closer together than
\* minimum_time_between_cue_points, whatever the candidates and parameters.
C1_MinimumSpacing ==
  SelectionReturned =>
    \A i, j \in 1..Len(cue_points) :
      i # j => Abs(cue_points[i] - cue_points[j])
                 >= minimum_time_between_cue_points

\* a candidate was turned down for being too close to the accepted one
C1_Witness ==
  /\ SelectionReturned
  /\ op = "calculate"
  /\ minimum_time_between_cue_points > 1
  /\ Len(cue_points) >= 2
  /\ \E i \in 1..Len(potential_cue_points) :
       /\ potential_cue_points[i] >= minimum_time_for_first_cue_point
       /\ \A k \in 1..Len(cue_points) :
            cue_points[k] # potential_cue_points[i]

\* C2: no cue point returned by selection is smaller than
\* minimum_time_for_first_cue_point.
C2_NotBeforeFirst ==
  SelectionReturned =>
    \A i \in 1..Len(cue_points) :
      cue_points[i] >= minimum_time_for_first_cue_point

\* a candidate before the minimum was offered, and later ones were accepted
C2_Witness ==
  /\ SelectionReturned
  /\ cue_points # << >>
  /\ \E i \in 1..Len(potential_cue_points) :
       potential_cue_points[i] < minimum_time_for_first_cue_point

\* C3: the returned cue points are in ascending order for every order of
\* the candidates.
C3_Ascending ==
  SelectionReturned =>
    \A i, j \in 1..Len(cue_points) :
      i < j => cue_points[i] <= cue_points[j]

\* the candidates came in descending order and two of them were accepted
C3_Witness ==
  /\ SelectionReturned
  /\ Len(cue_points) >= 2
  /\ \E i \in 1..(Len(potential_cue_points) - 1) :
       potential_cue_points[i] > potential_cue_points[i + 1]

\* C4: selection run on its own output with the same parameters returns
\* that output unchanged.
C4_Idempotent ==
  (SelectionReturned /\ op = "rerun") => cue_points = previous_output

\* a re-run on an output of two or more cue points has returned
C4_Witness ==
  /\ SelectionReturned
  /\ op = "rerun"
  /\ Len(previous_output) >= 2
  /\ minimum_time_between_cue_points > 0

\* C5: for the reference segments determine_video_cue_points returns
\* [0.0, 60.2] with the defaults, [12.2, 60.2] with the first cue point not
\* before 10.0 s, and [0.0, 12.2, 60.2, 65.8] with 5.0 s between cue points.
C5_ReferenceCuePoints ==
  (SelectionReturned /\ op = "determine" /\ video_segments = RefSegments) =>
    /\ (/\ minimum_time_for_first_cue_point = DefaultFirstCuePoint
        /\ minimum_time_between_cue_points = DefaultBetweenCuePoints)
         => cue_points = << 0, 1204 >>
    /\ (/\ minimum_time_for_first_cue_point = RefFirstCuePoint
        /\ minimum_time_between_cue_points = DefaultBetweenCuePoints)
         => cue_points = << 244, 1204 >>
    /\ (/\ minimum_time_for_first_cue_point = DefaultFirstCuePoint
        /\ minimum_time_between_cue_points = RefBetweenCuePoints)
         => cue_points = << 0, 244, 1204, 1316 >>

\* the reference segments were analysed with 5.0 s between cue points
C5_Witness ==
  /\ SelectionReturned
  /\ op = "determine"
  /\ analyzer = "fake"
  /\ video_segments = RefSegments
  /\ minimum_time_for_first_cue_point = DefaultFirstCuePoint
  /\ minimum_time_between_cue_points = RefBetweenCuePoints
  /\ Len(cue_points) = 4

(***************************************************************************)
(* Properties of the analyzers.  detect_shot_changes has just returned     *)
(* when the call stands before the derivation of the candidates.           *)
(***************************************************************************)
DetectReturned == pc = "derive"

\* C6 as stated: detect_shot_changes never returns an empty list, for every
\* backend.
C6_NeverEmpty_AsStated == DetectReturned => video_segments # << >>

\* C6: the local analyzer never returns an empty list, zero surviving cuts
\* giving one segment from 0 to the duration; the cloud analyzer returns an
\* empty list exactly when the response has no shot annotations.
C6_LocalNeverEmpty ==
  DetectReturned =>
    /\ analyzer = "ffmpeg" =>
         /\ video_segments # << >>
         /\ shot_change_timestamps = << >> =>
              video_segments = << VideoSegment(0, probe.duration) >>
    /\ analyzer = "cloud" =>
         (video_segments = << >> <=> shot_annotations = << >>)

\* the local analyzer has returned for a stream without a surviving cut
C6_Witness ==
  /\ DetectReturned
  /\ analyzer = "ffmpeg"
  /\ shot_change_timestamps = << >>
  /\ Len(video_segments) = 1

\* line k of the stream lies between a silence_start and the first
\* silence_end after it
InsideSilentText(stream, k) ==
  /\ \E i \in 1..(k - 1) :
       /\ stream[i].key = "silence_start"
       /\ \A m \in (i + 1)..(k - 1) : stream[m].key # "silence_end"
  /\ \E j \in (k + 1)..Len(stream) : stream[j].key = "silence_end"

\* the silence windows the stream reports: each silence_start paired with
\* the first silence_end after it
SilenceWindows(stream) ==
  { w \in (1..Len(stream)) \X (1..Len(stream)) :
      /\ w[1] < w[2]
      /\ stream[w[1]].key = "silence_start"
      /\ stream[w[2]].key = "silence_end"
      /\ \A m \in (w[1] + 1)..(w[2] - 1) : stream[m].key # "silence_end" }

InsideSilenceWindow(stream, t) ==
  \E w \in SilenceWindows(stream) :
    stream[w[1]].t <= t /\ t <= stream[w[2]].t

\* C7 as stated: a cut is a segment boundary only if its timestamp lies in
\* a silence window reported in the stream, for any interleaving of the
\* lines of the two filters.
C7_CutsInsideSilence_AsStated ==
  (DetectReturned /\ analyzer = "ffmpeg") =>
    \A i \in 1..Len(shot_change_timestamps) :
      InsideSilenceWindow(ffmpeg_output, shot_change_timestamps[i])

\* C8 as stated: with no volume_threshold every timestamp the showinfo
\* filter logged is retained as a cut.
C8_NoThresholdKeepsAll_AsStated ==
  (DetectReturned /\ analyzer = "ffmpeg" /\ volume_threshold = << >>) =>
    shot_change_timestamps = ShowinfoTimestamps(ffmpeg_output)

\* C9: when no showinfo timestamp lies inside a silent stretch of the
\* stream, the local analyzer returns the one segment (0, duration).
C9_NoCutsOneSegment ==
  (/\ DetectReturned
   /\ analyzer = "ffmpeg"
   /\ \A k \in 1..Len(ffmpeg_output) :
        IsShowinfo(ffmpeg_output[k]) => ~InsideSilentText(ffmpeg_output, k))
    => video_segments = << VideoSegment(0, probe.duration) >>

\* a stream with a silence window and a scene change outside of it, of a
\* video stream that does not start at 0
C9_Witness ==
  /\ DetectReturned
  /\ analyzer = "ffmpeg"
  /\ probe.start_time > 0
  /\ SilenceWindows(ffmpeg_output) # {}
  /\ \E k \in 1..Len(ffmpeg_output) : IsShowinfo(ffmpeg_output[k])
  /\ \A k \in 1..Len(ffmpeg_output) :
       IsShowinfo(ffmpeg_output[k]) => ~InsideSilentText(ffmpeg_output, k)

\* C10: the request the cloud analyzer sends and the segments it returns
\* are those of a call with any other volume_threshold for the same URI.
C10_CloudThresholdNoOp ==
  (DetectReturned /\ analyzer = "cloud") =>
    /\ request = [features |-> << "SHOT_CHANGE_DETECTION" >>,
                  input_uri |-> video]
    /\ \A t \in VolumeThresholds :
         /\ request = CloudRequest(video, t)
         /\ video_segments = CloudDetectShotChanges(video, t, shot_annotations)

\* the cloud analyzer was called with a volume_threshold and got shots back
C10_Witness ==
  /\ DetectReturned
  /\ analyzer = "cloud"
  /\ volume_threshold # << >>
  /\ Len(video_segments) >= 2

(***************************************************************************)
(* Further properties of selection and of the call.                        *)
(***************************************************************************)
\* C11 as stated: for any parameter values no timestamp appears twice in
\* the output of selection.
C11_NoDuplicates_AsStated ==
  SelectionReturned =>
    \A i, j \in 1..Len(cue_points) : i # j => cue_points[i] # cue_points[j]

\* C11: when minimum_time_between_cue_points is positive, no timestamp
\* appears twice in the output of selection.
\* With a spacing of 0 or less every candidate at or after the minimum is
\* returned, as often as it was offered.
C11_NoDuplicatesPositiveSpacing ==
  LET AtOrAfterMin(x) == x >= minimum_time_for_first_cue_point
  IN  /\ (SelectionReturned /\ minimum_time_between_cue_points > 0) =>
           \A i, j \in 1..Len(cue_points) :
             i # j => cue_points[i] # cue_points[j]
      /\ (SelectionReturned /\ minimum_time_between_cue_points <= 0) =>
           cue_points = SelectSeq(sorted(potential_cue_points), AtOrAfterMin)

\* a timestamp offered twice was accepted once, under a positive spacing
C11_Witness ==
  /\ SelectionReturned
  /\ op = "calculate"
  /\ minimum_time_between_cue_points > 0
  /\ \E i, j \in 1..Len(potential_cue_points) :
       /\ i # j
       /\ potential_cue_points[i] = potential_cue_points[j]
       /\ \E k \in 1..Len(cue_points) : cue_points[k] = potential_cue_points[i]

RemoveAt(s, i) == SubSeq(s, 1, i - 1) \o SubSeq(s, i + 1, Len(s))

RECURSIVE PermutationsOf(_)
PermutationsOf(s) ==
  IF s = << >> THEN { << >> }
  ELSE UNION { { << s[i] >> \o q : q \in PermutationsOf(RemoveAt(s, i)) } :
               i \in 1..Len(s) }

DetermineReturned == SelectionReturned /\ op \in {"determine", "main"}

\* C12 as stated: determine_video_cue_points returns the same cue points for
\* every permutation of the segment list the analyzer returned.
C12_SegmentOrderIrrelevant_AsStated ==
  DetermineReturned =>
    \A p \in PermutationsOf(video_segments) :
      CalculateOptimalCuePoints(DerivePotentialCuePoints(p),
                                minimum_time_for_first_cue_point,
                                minimum_time_between_cue_points) = cue_points

\* C12: the candidates, not the segments, are sorted: selection returns the
\* same cue points for every permutation of the candidate list.
C12_CandidateOrderIrrelevant ==
  SelectionReturned =>
    \A p \in PermutationsOf(potential_cue_points) :
      CalculateOptimalCuePoints(p, minimum_time_for_first_cue_point,
                                minimum_time_between_cue_points) = cue_points

\* candidates derived from two or more segments, not in ascending order, of
\* which two or more were accepted
C12_Witness ==
  /\ DetermineReturned
  /\ Len(video_segments) >= 2
  /\ sorted(potential_cue_points) # potential_cue_points
  /\ Len(cue_points) >= 2

Min(a, b) == IF a < b THEN a ELSE b

\* C13: a FakeVideoAnalyzer built with r1..rn returns rk at its k-th
\* invocation whatever the arguments, holds r(k+1)..rn afterwards, and fails
\* at invocation n + 1.
C13_FakeQueue ==
  analyzer = "fake" =>
    LET n == Len(fake_constructed)
        k == fake_invocations
    IN  /\ detect_shot_responses = SubSeq(fake_constructed, Min(k, n) + 1, n)
        /\ pc = "derive" => (k \in 1..n /\ video_segments = fake_constructed[k])
        /\ pc = "failed" => (k = n + 1 /\ raised = "StopIteration")

\* a double built with two different responses has returned both and then
\* failed at the third invocation
C13_Witness ==
  /\ analyzer = "fake"
  /\ pc = "failed"
  /\ Len(fake_constructed) = 2
  /\ fake_constructed[1] # fake_constructed[2]
  /\ fake_invocations = 3

\* C14: determine_video_cue_points invokes detect_shot_changes of the
\* analyzer it was given exactly once, with its own locator and
\* volume_threshold; a failed invocation is not repeated.
C14_DetectInvokedOnce ==
  /\ pc \in {"idle", "detect"} => detect_calls = << >>
  /\ op = "calculate" => detect_calls = << >>
  /\ (op \in {"determine", "main"} /\ pc \notin {"idle", "detect"}) =>
       detect_calls =
         << [analyzer |-> analyzer, video |-> video,
             volume_threshold |-> volume_threshold] >>

\* a call with a volume_threshold has ended after its one invocation of the
\* local analyzer
C14_Witness ==
  /\ pc = "done"
  /\ op = "determine"
  /\ analyzer = "ffmpeg"
  /\ volume_threshold = << -25 >>
  /\ Len(detect_calls) = 1

\* C15: when detect_shot_changes fails, the call ends with that same
\* failure, no candidate or cue point is computed and main() prints nothing.
C15_AllOrNothing ==
  /\ raised # "none" =>
       /\ pc = "failed"
       /\ error = raised
       /\ potential_cue_points = << >>
       /\ cue_points = << >>
       /\ stdout = << >>
  /\ pc = "failed" => raised # "none"
  /\ stdout # << >> => (raised = "none" /\ stdout = << cue_points >>)

\* main() has failed in the remote call of the cloud analyzer
C15_Witness ==
  /\ pc = "failed"
  /\ op = "main"
  /\ analyzer = "cloud"
  /\ raised = "RemoteError"
  /\ stdout = << >>

\* C16: with minimum_time_for_first_cue_point = 0.0 the output of
\* determine_video_cue_points starts with the pre-roll 0.0, for any segments
\* and any minimum_time_between_cue_points.
C16_PreRollFirst ==
  (DetermineReturned /\ minimum_time_for_first_cue_point = DefaultFirstCuePoint)
    => (cue_points # << >> /\ cue_points[1] = 0)

\* segments out of order, a spacing that keeps a later candidate, and the
\* default minimum
C16_Witness ==
  /\ DetermineReturned
  /\ minimum_time_for_first_cue_point = DefaultFirstCuePoint
  /\ Len(video_segments) >= 2
  /\ video_segments[1].start_time > video_segments[2].start_time
  /\ Len(cue_points) >= 2


BeginsWithGcsScheme(locator) ==
  /\ Len(locator) >= 5
  /\ locator[1] = "g" /\ locator[2] = "s" /\ locator[3] = ":"
  /\ locator[4] = "/" /\ locator[5] = "/"

\* C17: in the cue command a locator that begins with gs:// selects the cloud
\* analyzer and any other locator the local one, and first_cue, between_cues
\* and volume_threshold (0.0, 30.0 and none when the option is absent) reach
\* determine_video_cue_points and the analyzer as they were given.
C17_CliForwarding ==
  (op = "main" /\ pc # "idle") =>
    /\ analyzer = (IF BeginsWithGcsScheme(args.content_file)
                     THEN "cloud" ELSE "ffmpeg")
    /\ video = args.content_file
    /\ minimum_time_for_first_cue_point =
         (IF args.first_cue = << >> THEN 0 ELSE args.first_cue[1])
    /\ minimum_time_between_cue_points =
         (IF args.between_cues = << >> THEN 600 ELSE args.between_cues[1])
    /\ volume_threshold = args.volume_threshold
    /\ \A i \in 1..Len(detect_calls) :
         /\ detect_calls[i].analyzer = analyzer
         /\ detect_calls[i].video = args.content_file
         /\ detect_calls[i].volume_threshold = args.volume_threshold

\* a locator that only resembles the scheme, options left out, the local
\* backend has run
C17_Witness ==
  /\ op = "main"
  /\ pc = "done"
  /\ args.content_file = << "g", "s", ":", "/", "v" >>
  /\ args.first_cue = << >>
  /\ args.between_cues = << >>
  /\ args.volume_threshold = << >>
  /\ analyzer = "ffmpeg"
  /\ Len(detect_calls) = 1
  /\ stdout # << >>


\* the candidates of s that the decisions a keep, from position i on
RECURSIVE AcceptedOf(_, _, _)
AcceptedOf(s, a, i) ==
  IF i > Len(s) THEN << >>
  ELSE (IF a[i] THEN << s[i] >> ELSE << >>) \o AcceptedOf(s, a, i + 1)

\* the decisions a over the ascending candidates s follow the rule: a
\* candidate is accepted iff it is at or after the first minimum and either
\* nothing was accepted before it or it is the spacing after the latest
\* accepted one
FollowsSelectionRule(s, a, first, between) ==
  \A i \in 1..Len(s) :
    LET before == { j \in 1..(i - 1) : a[j] }
        latest == CHOOSE j \in before : \A k \in before : k <= j
    IN  a[i] <=> /\ s[i] >= first
                 /\ (before = {} \/ s[i] - s[latest] >= between)

\* C18: the output of the selection is the candidates, taken in ascending
\* order, that the rule accepts (accepted iff at or after the first minimum
\* and the first accepted or the spacing after the most recently accepted);
\* taking a rejected candidate away changes nothing, and every cue point is
\* one of the candidates.
C18_SelectionRule ==
  SelectionReturned =>
    LET s == sorted(potential_cue_points)
        first == minimum_time_for_first_cue_point
        between == minimum_time_between_cue_points
    IN  /\ \E a \in [1..Len(s) -> BOOLEAN] :
             /\ FollowsSelectionRule(s, a, first, between)
             /\ cue_points = AcceptedOf(s, a, 1)
             /\ \A i \in 1..Len(s) :
                  ~a[i] => CalculateOptimalCuePoints(RemoveAt(s, i), first,
                                                     between) = cue_points
        /\ \A k \in 1..Len(cue_points) :
             \E i \in 1..Len(potential_cue_points) :
               cue_points[k] = potential_cue_points[i]

\* a candidate at or after the first minimum is rejected for being too close
\* to the accepted one before it, and the next one, closer than the spacing
\* to the rejected one, is accepted, exactly the spacing after the accepted
C18_Witness ==
  /\ SelectionReturned
  /\ Len(cue_points) >= 2
  /\ cue_points[2] - cue_points[1] = minimum_time_between_cue_points
  /\ \E i \in 1..Len(potential_cue_points) :
       /\ potential_cue_points[i] >= minimum_time_for_first_cue_point
       /\ cue_points[1] < potential_cue_points[i]
       /\ potential_cue_points[i] < cue_points[2]
       /\ cue_points[2] - potential_cue_points[i]
            < minimum_time_between_cue_points


\* segments with non-negative times, each ending no earlier than it starts
\* and no later than the next one starts
AscendingNonOverlapping(segments) ==
  /\ \A i \in 1..Len(segments) :
       /\ 0 <= segments[i].start_time
       /\ segments[i].start_time <= segments[i].end_time
  /\ \A i \in 1..(Len(segments) - 1) :
       segments[i].end_time <= segments[i + 1].start_time

CandidatesDerived ==
  op \in {"determine", "main"} /\ pc \in {"select", "print", "done"}

\* C19: from N ascending, non-overlapping segments determine_video_cue_points
\* builds exactly N+1 candidates: 0.0, the middle between each segment's end
\* and the next segment's start, and the last segment's end; the list is
\* already ascending, so sorting leaves it as it is.
C19_CandidateDerivation ==
  (CandidatesDerived /\ AscendingNonOverlapping(video_segments)) =>
    LET N == Len(video_segments)
    IN  /\ Len(potential_cue_points) = N + 1
        /\ potential_cue_points[1] = 0
        /\ \A i \in 1..(N - 1) :
             2 * potential_cue_points[i + 1] =
               video_segments[i].end_time + video_segments[i + 1].start_time
        /\ N >= 1 => potential_cue_points[N + 1] = video_segments[N].end_time
        /\ \A i \in 1..N : potential_cue_points[i] <= potential_cue_points[i + 1]
        /\ sorted(potential_cue_points) = potential_cue_points

\* three or more well-formed segments with a gap between the first two
C19_Witness ==
  /\ CandidatesDerived
  /\ pc = "select"
  /\ AscendingNonOverlapping(video_segments)
  /\ Len(video_segments) >= 3
  /\ video_segments[1].end_time < video_segments[2].start_time


\* C20: for K >= 1 surviving ascending cuts c1..cK and probed start s the
\* local analyzer returns exactly K+1 segments that start at s, c1, ..., cK;
\* each but the last ends one frame time (duration / frame count) before the
\* next start, and the last ends at the probed duration.
C20_LocalSegmentConstruction ==
  (/\ DetectReturned
   /\ analyzer = "ffmpeg"
   /\ Len(shot_change_timestamps) >= 1
   /\ IsAscending(shot_change_timestamps)) =>
    LET K == Len(shot_change_timestamps)
        c == shot_change_timestamps
    IN  /\ Len(video_segments) = K + 1
        /\ video_segments[1].start_time = probe.start_time
        /\ \A i \in 1..K : video_segments[i + 1].start_time = c[i]
        /\ \E seconds_per_frame \in 1..probe.duration :
             /\ seconds_per_frame * probe.nb_frames = probe.duration
             /\ \A i \in 1..K :
                  video_segments[i].end_time =
                    video_segments[i + 1].start_time - seconds_per_frame
        /\ video_segments[K + 1].end_time = probe.duration

\* two cuts survive in a stream that does not start at zero
C20_Witness ==
  /\ DetectReturned
  /\ analyzer = "ffmpeg"
  /\ Len(shot_change_timestamps) = 2
  /\ probe.start_time > 0
  /\ Len(video_segments) = 3


LocalDetectReturned == DetectReturned /\ analyzer = "ffmpeg"

\* C21 (as stated): every segment the local analyzer returns has
\* 0 <= start_time < end_time, whatever the probe reports and wherever the
\* surviving cuts lie inside the media span.
C21_SegmentsWellFormed_AsStated ==
  LocalDetectReturned =>
    \A i \in 1..Len(video_segments) :
      /\ 0 <= video_segments[i].start_time
      /\ video_segments[i].start_time < video_segments[i].end_time


\* C22 (as stated): the segments the local analyzer returns are ascending by
\* start_time, do not overlap, and cover the media span: the first starts at
\* the stream start and the last ends at the probed duration.
C22_OrderedCovering_AsStated ==
  LocalDetectReturned =>
    /\ \A i \in 1..(Len(video_segments) - 1) :
         /\ video_segments[i].start_time < video_segments[i + 1].start_time
         /\ video_segments[i].end_time <= video_segments[i + 1].start_time
    /\ video_segments # << >>
    /\ video_segments[1].start_time = probe.start_time
    /\ video_segments[Len(video_segments)].end_time = probe.duration


FilterPassStarted == analyzer = "ffmpeg" /\ pc = "run"

\* C23 (as stated): the silence detector of the local analyzer is given
\* exactly the caller's volume_threshold whenever one is supplied, 0.0 and
\* negative values included, and 1000.0 dB only when none is supplied.
C23_ThresholdForwarded_AsStated ==
  FilterPassStarted =>
    /\ volume_threshold # << >> => silencedetect_n = volume_threshold[1]
    /\ volume_threshold = << >> => silencedetect_n = 1000


\* the timestamps of the info-dump lines of the stream, from line k on, that
\* lie inside silent text, in their order of appearance
RECURSIVE RetainedFrom(_, _)
RetainedFrom(stream, k) ==
  IF k > Len(stream) THEN << >>
  ELSE (IF stream[k].key = "pts_time" /\ InsideSilentText(stream, k)
          THEN << stream[k].t >> ELSE << >>)
       \o RetainedFrom(stream, k + 1)

\* C24: a scene-change timestamp is retained iff its info-dump line lies
\* textually between a silence_start and the first silence_end after that
\* start; lines before the first silence_start, between a silence_end and the
\* next silence_start, or after a silence_start with no later silence_end
\* give no cut, and the retained timestamps keep their order of appearance.
C24_RetainedIffInsideSilentText ==
  LocalDetectReturned =>
    shot_change_timestamps = RetainedFrom(ffmpeg_output, 1)

\* one info-dump line inside a closed silence section is retained and one
\* logged between a silence_end and the next silence_start is dropped
C24_Witness ==
  /\ LocalDetectReturned
  /\ Len(shot_change_timestamps) = 1
  /\ \E k1, k2 \in 1..Len(ffmpeg_output) :
       /\ ffmpeg_output[k1].key = "pts_time"
       /\ ffmpeg_output[k2].key = "pts_time"
       /\ InsideSilentText(ffmpeg_output, k1)
       /\ k1 < k2
       /\ \E e \in (k1 + 1)..(k2 - 1) : ffmpeg_output[e].key = "silence_end"
       /\ \E s \in (k2 + 1)..Len(ffmpeg_output) :
            ffmpeg_output[s].key = "silence_start"


CloudDetectReturned == DetectReturned /\ analyzer = "cloud"

\* C25: the cloud analyzer returns one VideoSegment per shot annotation of
\* the response, in the same order, with start_time and end_time equal to
\* the offset's whole seconds plus its fractional seconds (a tick of the
\* clock is 50000 microseconds).
C25_CloudConversion ==
  CloudDetectReturned =>
    /\ Len(video_segments) = Len(shot_annotations)
    /\ \A i \in 1..Len(shot_annotations) :
         LET s == shot_annotations[i].start_time_offset
             e == shot_annotations[i].end_time_offset
         IN  /\ 50000 * video_segments[i].start_time
                  = 1000000 * s.seconds + s.microseconds
             /\ 50000 * video_segments[i].end_time
                  = 1000000 * e.seconds + e.microseconds

\* a response of two annotations, not in time order, with fractional offsets
C25_Witness ==
  /\ CloudDetectReturned
  /\ Len(shot_annotations) = 2
  /\ shot_annotations[1].start_time_offset.seconds
       > shot_annotations[2].start_time_offset.seconds
  /\ shot_annotations[1].end_time_offset.microseconds > 0
  /\ video_segments[1].start_time > video_segments[2].start_time


\* C26: when the probe fails or its result has no video stream, the local
\* analyzer fails with that error before the filter pass is started and
\* returns no segments, neither a default nor a partial list.
C26_ProbeFailureIsFatal ==
  (analyzer = "ffmpeg" /\ raised # "none") =>
    /\ raised \in {"ffmpeg.Error", "StopIteration"}
    /\ pc = "failed"
    /\ error = raised
    /\ silencedetect_n = 0
    /\ ffmpeg_output = << >>
    /\ video_lines = << >>
    /\ audio_lines = << >>
    /\ shot_change_timestamps = << >>
    /\ video_segments = << >>

\* the probe result of a call through main() had no video stream
C26_Witness ==
  /\ analyzer = "ffmpeg"
  /\ op = "main"
  /\ raised = "StopIteration"
  /\ pc = "failed"
  /\ Len(detect_calls) = 1


\* what a call returns when it runs alone
AloneSegments(a, v, t) ==
  IF a = "cloud"
    THEN CloudDetectShotChanges(v, t, RemoteShots(v))
    ELSE FfmpegVideoSegments(
           LocalProbe(v),
           ParseShotChangeTimestamps(LocalStream(v, SilencedetectNoise(t))))

AloneCuePoints(a, v, t, first, between) ==
  CalculateOptimalCuePoints(DerivePotentialCuePoints(AloneSegments(a, v, t)),
                            first, between)

\* C27: detect_shot_changes of the cloud and the local analyzer never writes
\* an attribute of the instance, which holds nothing but the injected handle,
\* and under any interleaving of calls for independent videos each call
\* returns the cue points it returns when it runs alone.
C27_NoSharedMutableState ==
  /\ instance = ConstructedInstances
  /\ \A a \in SharedAnalyzers : Cardinality(DOMAIN instance[a]) = 1
  /\ \A c \in Callers :
       /\ calls[c].pc \in {"derive", "select", "done"} =>
            calls[c].video_segments =
              AloneSegments(calls[c].analyzer, calls[c].video,
                            calls[c].volume_threshold)
       /\ calls[c].pc = "done" =>
            calls[c].cue_points =
              AloneCuePoints(calls[c].analyzer, calls[c].video,
                             calls[c].volume_threshold,
                             calls[c].minimum_time_for_first_cue_point,
                             calls[c].minimum_time_between_cue_points)

\* one call on the local analyzer has returned while another call on the same
\* instance, for another video, is between its probe and its filter pass
C27_Witness ==
  /\ calls["a"].pc = "done"
  /\ calls["b"].pc = "run"
  /\ calls["a"].analyzer = "ffmpeg"
  /\ calls["b"].analyzer = "ffmpeg"
  /\ calls["a"].video # calls["b"].video
  /\ Len(calls["a"].cue_points) >= 2


\* C28: when the analyzer returns no segment, determine_video_cue_points
\* does not fail: its only candidate is 0.0 and it returns [0.0] if
\* minimum_time_for_first_cue_point <= 0 and the empty list otherwise.
C28_EmptySegments ==
  (op \in {"determine", "main"} /\ video_segments = << >>) =>
    /\ pc \in {"select", "print", "done"} =>
         (raised = "none" /\ potential_cue_points = << 0 >>)
    /\ pc = "done" =>
         cue_points = (IF minimum_time_for_first_cue_point <= 0
                         THEN << 0 >> ELSE << >>)
    /\ (pc = "failed" => raised # "none")

\* the cloud analyzer returned no segment and the first minimum is positive
C28_Witness ==
  /\ DetermineReturned
  /\ analyzer = "cloud"
  /\ Len(detect_calls) = 1
  /\ video_segments = << >>
  /\ minimum_time_for_first_cue_point > 0
  /\ cue_points = << >>


\* the candidates at the positions S satisfy both constraints
SatisfiesConstraints(candidates, S, first, between) ==
  /\ \A i \in S : candidates[i] >= first
  /\ \A i, j \in S : i # j => Abs(candidates[i] - candidates[j]) >= between

\* C29: for any candidates, any first minimum and any spacing >= 0, no
\* sub-list of the candidates that satisfies both constraints has more
\* elements than the list _calculate_optimal_cue_points returns.
C29_CardinalityOptimal ==
  (SelectionReturned /\ minimum_time_between_cue_points >= 0) =>
    \A S \in SUBSET (1..Len(potential_cue_points)) :
      SatisfiesConstraints(potential_cue_points, S,
                           minimum_time_for_first_cue_point,
                           minimum_time_between_cue_points)
        => Cardinality(S) <= Len(cue_points)

\* three candidates of which the greedy scan keeps two, a middle one being
\* too close to both, and no three fit
C29_Witness ==
  /\ SelectionReturned
  /\ op = "calculate"
  /\ minimum_time_between_cue_points > 0
  /\ Len(potential_cue_points) = 3
  /\ Len(cue_points) = 2
  /\ \E i \in 1..3 :
       /\ potential_cue_points[i] > cue_points[1]
       /\ potential_cue_points[i] < cue_points[2]


\* C30 (as stated): for a probed stream start s the single segment returned
\* when no cut survives starts where the first segment starts when a cut
\* survives, at s.
C30_StartConsistency_AsStated ==
  (LocalDetectReturned /\ shot_change_timestamps = << >>) =>
    /\ Len(video_segments) = 1
    /\ \A c \in CutTimes(probe) :
         video_segments[1].start_time =
           FfmpegVideoSegments(probe, << c >>)[1].start_time

====
